---------------------------- MODULE Spec2Model ----------------------------
(***************************************************************************)
(* SFTWrapper (smart-contracts/assembly/contracts/SFT/SFTWrapper.ts): a    *)
(* typed proxy that forwards each of its eleven methods to one entry point *)
(* of a remote SFT contract through the host function `call`.              *)
(*                                                                         *)
(* Strings are sequences of characters, buffers (StaticArray<u8>) are      *)
(* sequences of byte values; the two are related only through the codec    *)
(* operators below.  A u64 is a natural number (the values used here stay  *)
(* far below 2^31).                                                        *)
(*                                                                         *)
(* Args, NoArg, bytesToString and bytesToU64 are imported from             *)
(* @massalabs/as-types and `call` from @massalabs/massa-as-sdk (lines 1-2  *)
(* of the source); they are modelled after those packages' behaviour.      *)
(***************************************************************************)
EXTENDS Naturals, Sequences, FiniteSets

VARIABLES
    _origin,   \* SFTWrapper._origin, the target the proxy holds
    at,        \* the constructor's argument, kept for reference
    calls,     \* the requests the Call Primitive has received, in order
    invoked,   \* the proxy methods the caller has invoked, in order
    last       \* outcome of the most recent method: response and result

vars == <<_origin, at, calls, invoked, last>>

---------------------------------------------------------------------------
(* Bounds of the model *)

\* number of proxy methods a caller invokes one after another
MaxOps == 2

\* longest string the remote side returns in the single-call
\* specification SpecDecode
MaxLen == 3

---------------------------------------------------------------------------
(* Characters and bytes *)

\* the characters that occur: two letters, the comma, and the control
\* characters whose codes appear in length prefixes and small integers
Chars == {"NUL", "SOH", "STX", "ETX", "EOT", "ENQ", ",", "a", "b"}

\* UTF-8 code unit of a character (all are single-byte, i.e. ASCII)
CharCode(c) ==
    CASE c = "NUL" -> 0
      [] c = "SOH" -> 1
      [] c = "STX" -> 2
      [] c = "ETX" -> 3
      [] c = "EOT" -> 4
      [] c = "ENQ" -> 5
      [] c = ","   -> 44
      [] c = "a"   -> 97
      [] c = "b"   -> 98

Bytes == {CharCode(c) : c \in Chars}

CodeChar(n) == CHOOSE c \in Chars : CharCode(c) = n

\* stringToBytes of as-types: the UTF-8 bytes of the string, no prefix
stringToBytes(str) == [i \in 1..Len(str) |-> CharCode(str[i])]

\* bytesToString of as-types: an empty buffer is '', otherwise the whole
\* buffer is decoded as UTF-8; no length prefix is read
bytesToString(arr) ==
    IF Len(arr) = 0 THEN <<>>
    ELSE [i \in 1..Len(arr) |-> CodeChar(arr[i])]

RECURSIVE toBytes(_, _)
\* toBytes<T> of as-types: `size` bytes of val, little-endian (wasm store)
toBytes(val, size) ==
    IF size = 0 THEN <<>>
    ELSE <<val % 256>> \o toBytes(val \div 256, size - 1)

RECURSIVE fromBytes(_)
\* little-endian value of a byte sequence
fromBytes(arr) ==
    IF arr = <<>> THEN 0
    ELSE Head(arr) + 256 * fromBytes(Tail(arr))

\* what an unchecked load can find behind a buffer: the bytes after the
\* array's last element are whatever the allocator left there
StaleMemory(n) ==
    IF n = 0 THEN {<<>>}
    ELSE {[i \in 1..n |-> 0], [i \in 1..n |-> IF i = 1 THEN 1 ELSE 0]}

\* bytesToU64 of as-types: fromBytes<u64>, a load<u64> at the start of the
\* buffer with no length check.  The set of values it can return: with 8
\* bytes or more, the first 8; with fewer, the bytes present followed by
\* the memory behind them.
bytesToU64(arr) ==
    IF Len(arr) >= 8 THEN {fromBytes(SubSeq(arr, 1, 8))}
    ELSE {fromBytes(arr \o pad) : pad \in StaleMemory(8 - Len(arr))}

---------------------------------------------------------------------------
(* Args: the argument builder *)

\* a string argument and a u64 argument
Str(s) == [t |-> "string", s |-> s, n |-> 0]
U64(n) == [t |-> "u64", s |-> <<>>, n |-> n]

\* new Args(): nothing added yet
NewArgs == <<>>

\* Args.add: appends the value after those already added
add(args, arg) == Append(args, arg)

\* NoArg of as-types: an Args to which nothing was added
NoArg == NewArgs

\* the bytes Args.add writes for one value: a string is its byte length as
\* a little-endian u32 followed by its UTF-8 bytes, a u64 is 8 bytes
\* little-endian
fieldBytes(arg) ==
    IF arg.t = "string"
    THEN toBytes(Len(stringToBytes(arg.s)), 4) \o stringToBytes(arg.s)
    ELSE toBytes(arg.n, 8)

RECURSIVE serialize(_)
\* Args.serialize: the bytes of the added values, in the order added
serialize(args) ==
    IF args = <<>> THEN <<>>
    ELSE fieldBytes(Head(args)) \o serialize(Tail(args))

---------------------------------------------------------------------------
(* The Call Primitive *)

\* the request `call(at, functionName, args, coins)` hands to the host
call(target, functionName, args, coins) ==
    [target  |-> target,
     entry   |-> functionName,
     args    |-> args,
     payload |-> serialize(args),
     coins   |-> coins]

\* the ways the Call Primitive fails: it could not reach the target or its
\* entry point, or the remote execution failed
CallErrors == {"unreachable", "remoteFailed"}

Returned(bytes) == [ok |-> TRUE, bytes |-> bytes, err |-> "none"]
Failed(e) == [ok |-> FALSE, bytes |-> <<>>, err |-> e]

---------------------------------------------------------------------------
(* Inputs *)

Identities == {"AS1", "AS2"}

\* address arguments
Addresses == {<<"a">>, <<"b">>}

\* token identifiers and amounts
TokenIds == {5, 300}
Amounts == {3, 5}

\* all strings over `alphabet` of length up to n
StringsUpTo(alphabet, n) ==
    UNION {[1..k -> alphabet] : k \in 0..n}

\* a string serialized through Args, as the only value
argsString(s) == serialize(add(NewArgs, Str(s)))

\* responses to the entry points read as a string, in a sequence of
\* methods: the bare UTF-8 bytes of a string, or a string serialized through
\* Args (length-prefixed)
StringResponses ==
    {stringToBytes(s) : s \in StringsUpTo({"a", ","}, 1)}
        \cup {argsString(<<"a">>)}

\* the same for a single method: every string up to MaxLen, bare and
\* serialized through Args
AnyStringResponses ==
    {stringToBytes(s) : s \in StringsUpTo({"a", ","}, MaxLen)}
        \cup {argsString(s) : s \in StringsUpTo({"a", ","}, MaxLen)}

\* responses to the entry points read as a u64: 8-byte integers, a longer
\* buffer, and buffers of fewer than 8 bytes
U64Responses ==
    {toBytes(n, 8) : n \in {0, 5, 300}}
        \cup {toBytes(5, 8) \o <<1>>}
        \cup {<<>>, <<5, 0, 0>>, <<44, 1, 0>>}

\* response to the entry points whose response is discarded
VoidResponses == {<<1>>}

Outcomes(responses) ==
    {Returned(b) : b \in responses} \cup {Failed(e) : e \in CallErrors}

---------------------------------------------------------------------------
(* What a method gives back to its caller *)

StringValue(s) ==
    [kind |-> "string", str |-> s, num |-> 0, list |-> <<>>,
     err |-> "none", decoded |-> TRUE]

U64Value(n) ==
    [kind |-> "u64", str |-> <<>>, num |-> n, list |-> <<>>,
     err |-> "none", decoded |-> TRUE]

ListValue(l) ==
    [kind |-> "list", str |-> <<>>, num |-> 0, list |-> l,
     err |-> "none", decoded |-> TRUE]

\* a void method returned normally; the response was not looked at
Void ==
    [kind |-> "void", str |-> <<>>, num |-> 0, list |-> <<>>,
     err |-> "none", decoded |-> FALSE]

\* the method did not return: the failure e of `call` ended it
Abort(e) ==
    [kind |-> "error", str |-> <<>>, num |-> 0, list |-> <<>>,
     err |-> e, decoded |-> FALSE]

NoResult ==
    [kind |-> "none", str |-> <<>>, num |-> 0, list |-> <<>>,
     err |-> "none", decoded |-> FALSE]

\* variant of Return with a defect: a failing call is answered with the
\* value decoded from an empty response
Return_swallowed(out, value) == value

\* `decoder(call(...))` and `call(...);`: the expression around the call is
\* evaluated only if the call returns; a failing call ends the method
Return(out, value) == IF out.ok THEN value ELSE Abort(out.err)

RECURSIVE split_skipEmpty(_, _)
\* variant of split with a defect: empty pieces are left out
split_skipEmpty(str, separator) ==
    IF \A i \in 1..Len(str) : str[i] # separator
    THEN IF str = <<>> THEN <<>> ELSE <<str>>
    ELSE LET i == CHOOSE j \in 1..Len(str) :
                    /\ str[j] = separator
                    /\ \A k \in 1..(j - 1) : str[k] # separator
             rest == split_skipEmpty(SubSeq(str, i + 1, Len(str)), separator)
         IN  IF i = 1 THEN rest ELSE <<SubSeq(str, 1, i - 1)>> \o rest

RECURSIVE split(_, _)
\* String.split(separator) for a one-character separator: the pieces
\* between the separators, in order; a string without separator (the empty
\* string too) is the single piece
split(str, separator) ==
    IF \A i \in 1..Len(str) : str[i] # separator THEN <<str>>
    ELSE LET i == CHOOSE j \in 1..Len(str) :
                    /\ str[j] = separator
                    /\ \A k \in 1..(j - 1) : str[k] # separator
         IN  <<SubSeq(str, 1, i - 1)>>
                 \o split(SubSeq(str, i + 1, Len(str)), separator)

---------------------------------------------------------------------------
(* The requests of the eleven methods *)

nameCall == call(_origin, "name", NoArg, 0)

symbolCall == call(_origin, "symbol", NoArg, 0)

tokenURICall(tokenId) ==
    call(_origin, "tokenURI", add(NewArgs, U64(tokenId)), 0)

\* variant of baseURICall with a defect: a zero field is sent
baseURICall_zeroField == call(_origin, "baseURI", add(NewArgs, U64(0)), 0)

baseURICall == call(_origin, "baseURI", NoArg, 0)

totalSupplyCall == call(_origin, "totalSupply", NoArg, 0)

currentSupplyCall == call(_origin, "currentSupply", NoArg, 0)

mintCall(addressTo) ==
    call(_origin, "mint", add(NewArgs, Str(addressTo)), 0)

\* variant of transferCall with a defect: amount is added before tokenId
transferCall_swapped(toAddress, tokenId, amount) ==
    call(_origin, "transfer",
         add(add(add(NewArgs, Str(toAddress)), U64(amount)), U64(tokenId)), 0)

\* variant of transferCall with a defect: the amount is attached as coins
transferCall_coins(toAddress, tokenId, amount) ==
    call(_origin, "transfer",
         add(add(add(NewArgs, Str(toAddress)), U64(tokenId)), U64(amount)),
         amount)

transferCall(toAddress, tokenId, amount) ==
    call(_origin, "transfer",
         add(add(add(NewArgs, Str(toAddress)), U64(tokenId)), U64(amount)), 0)

approveCall(tokenId, address) ==
    call(_origin, "approve", add(add(NewArgs, U64(tokenId)), Str(address)), 0)

transferFromCall(fromAddress, toAddress, tokenId) ==
    call(_origin, "transferFrom",
         add(add(add(NewArgs, Str(fromAddress)), Str(toAddress)), U64(tokenId)),
         0)

getApprovedCall(tokenId) ==
    call(_origin, "getApproved", add(NewArgs, U64(tokenId)), 0)

\* variant of getApprovedValue with a defect: no test for the empty string
getApprovedValue_noTest(response) ==
    ListValue(split(bytesToString(response), ","))

\* lines 139-143 of getApproved: what it makes of the response
getApprovedValue(response) ==
    LET addresses == bytesToString(response)
    IN  IF addresses = <<>> THEN ListValue(<<>>)
        ELSE ListValue(split(addresses, ","))

---------------------------------------------------------------------------
(* The state machine *)

\* variant of constructor with a defect: the argument is ignored
constructor_ignored(a) == "AS1"

\* constructor(at): this._origin = at
constructor(a) == a

Init ==
    /\ at \in Identities
    /\ _origin = constructor(at)
    /\ calls = <<>>
    /\ invoked = <<>>
    /\ last = [op |-> "none", out |-> Failed("none"), result |-> NoResult]

\* the caller invokes method op with the arguments `in`
Invocation(op, in) == [op |-> op, in |-> in]

\* variant of Method with a defect: a failed call is issued a second time
Method_retried(invocation, request, out, result) ==
    /\ Len(invoked) < MaxOps
    /\ invoked' = Append(invoked, invocation)
    /\ calls' = IF out.ok THEN Append(calls, request)
                ELSE Append(Append(calls, request), request)
    /\ last' = [op |-> invocation.op, out |-> out, result |-> result]
    /\ UNCHANGED <<_origin, at>>

\* one method runs from its invocation to its return: it hands `request`
\* to the Call Primitive, which answers `out`, and gives `result` back
Method(invocation, request, out, result) ==
    /\ Len(invoked) < MaxOps
    /\ invoked' = Append(invoked, invocation)
    /\ calls' = Append(calls, request)
    /\ last' = [op |-> invocation.op, out |-> out, result |-> result]
    /\ UNCHANGED <<_origin, at>>

\* Args.nextString: the string behind a little-endian u32 length
nextString(arr) ==
    IF Len(arr) < 4 THEN <<>>
    ELSE LET n == fromBytes(SubSeq(arr, 1, 4))
             end == IF 4 + n <= Len(arr) THEN 4 + n ELSE Len(arr)
         IN  bytesToString(SubSeq(arr, 5, end))

\* variant of nameWith with a defect: the response is read as a
\* length-prefixed string
nameWith_prefixed(responses) ==
    \E out \in Outcomes(responses) :
        Method(Invocation("name", <<>>), nameCall, out,
               Return(out, StringValue(nextString(out.bytes))))

nameWith(responses) ==
    \E out \in Outcomes(responses) :
        Method(Invocation("name", <<>>), nameCall, out,
               Return(out, StringValue(bytesToString(out.bytes))))

name == nameWith(StringResponses)

symbolWith(responses) ==
    \E out \in Outcomes(responses) :
        Method(Invocation("symbol", <<>>), symbolCall, out,
               Return(out, StringValue(bytesToString(out.bytes))))

symbol == symbolWith(StringResponses)

tokenURIWith(responses) ==
    \E tokenId \in TokenIds, out \in Outcomes(responses) :
        Method(Invocation("tokenURI", [tokenId |-> tokenId]),
               tokenURICall(tokenId), out,
               Return(out, StringValue(bytesToString(out.bytes))))

tokenURI == tokenURIWith(StringResponses)

baseURIWith(responses) ==
    \E out \in Outcomes(responses) :
        Method(Invocation("baseURI", <<>>), baseURICall, out,
               Return(out, StringValue(bytesToString(out.bytes))))

baseURI == baseURIWith(StringResponses)

totalSupply ==
    \E out \in Outcomes(U64Responses) :
        \E n \in bytesToU64(out.bytes) :
            Method(Invocation("totalSupply", <<>>), totalSupplyCall, out,
                   Return(out, U64Value(n)))

currentSupply ==
    \E out \in Outcomes(U64Responses) :
        \E n \in bytesToU64(out.bytes) :
            Method(Invocation("currentSupply", <<>>), currentSupplyCall, out,
                   Return(out, U64Value(n)))

mint ==
    \E addressTo \in Addresses, out \in Outcomes(VoidResponses) :
        Method(Invocation("mint", [addressTo |-> addressTo]),
               mintCall(addressTo), out, Return(out, Void))

transfer ==
    \E toAddress \in Addresses, tokenId \in TokenIds, amount \in Amounts,
       out \in Outcomes(VoidResponses) :
        Method(Invocation("transfer",
                          [toAddress |-> toAddress, tokenId |-> tokenId,
                           amount |-> amount]),
               transferCall(toAddress, tokenId, amount), out,
               Return(out, Void))

approve ==
    \E tokenId \in TokenIds, address \in Addresses,
       out \in Outcomes(VoidResponses) :
        Method(Invocation("approve",
                          [tokenId |-> tokenId, address |-> address]),
               approveCall(tokenId, address), out,
               Return(out, Void))

transferFrom ==
    \E fromAddress \in Addresses, toAddress \in Addresses,
       tokenId \in TokenIds, out \in Outcomes(VoidResponses) :
        Method(Invocation("transferFrom",
                          [fromAddress |-> fromAddress,
                           toAddress |-> toAddress, tokenId |-> tokenId]),
               transferFromCall(fromAddress, toAddress, tokenId), out,
               Return(out, Void))

getApprovedWith(responses) ==
    \E tokenId \in TokenIds, out \in Outcomes(responses) :
        Method(Invocation("getApproved", [tokenId |-> tokenId]),
               getApprovedCall(tokenId), out,
               Return(out, getApprovedValue(out.bytes)))

getApproved == getApprovedWith(StringResponses)

Next ==
    \/ name
    \/ symbol
    \/ tokenURI
    \/ baseURI
    \/ totalSupply
    \/ currentSupply
    \/ mint
    \/ transfer
    \/ approve
    \/ transferFrom
    \/ getApproved

\* any sequence of up to MaxOps methods on one proxy
Spec == Init /\ [][Next]_vars

---------------------------------------------------------------------------
(* A single string-returning method on a fresh proxy, answered with any    *)
(* response of AnyStringResponses: the specification of the decoders       *)

nameOnce == invoked = <<>> /\ nameWith(AnyStringResponses)

symbolOnce == invoked = <<>> /\ symbolWith(AnyStringResponses)

tokenURIOnce == invoked = <<>> /\ tokenURIWith(AnyStringResponses)

baseURIOnce == invoked = <<>> /\ baseURIWith(AnyStringResponses)

getApprovedOnce == invoked = <<>> /\ getApprovedWith(AnyStringResponses)

NextDecode ==
    \/ nameOnce
    \/ symbolOnce
    \/ tokenURIOnce
    \/ baseURIOnce
    \/ getApprovedOnce

SpecDecode == Init /\ [][NextDecode]_vars

---------------------------------------------------------------------------
(* Properties *)

StringOps == {"name", "symbol", "tokenURI", "baseURI"}

NoArgOps == {"name", "symbol", "baseURI", "totalSupply", "currentSupply"}

\* the payload fields the operations table gives for an invocation
TableFields(inv) ==
    CASE inv.op = "tokenURI" -> <<U64(inv.in.tokenId)>>
      [] inv.op = "mint" -> <<Str(inv.in.addressTo)>>
      [] inv.op = "transfer" ->
            <<Str(inv.in.toAddress), U64(inv.in.tokenId), U64(inv.in.amount)>>
      [] inv.op = "approve" -> <<U64(inv.in.tokenId), Str(inv.in.address)>>
      [] inv.op = "transferFrom" ->
            <<Str(inv.in.fromAddress), Str(inv.in.toAddress),
              U64(inv.in.tokenId)>>
      [] inv.op = "getApproved" -> <<U64(inv.in.tokenId)>>
      [] OTHER -> <<>>

RECURSIVE join(_, _)
\* the pieces put together again with the separator between them
join(pieces, separator) ==
    IF Len(pieces) = 0 THEN <<>>
    ELSE IF Len(pieces) = 1 THEN pieces[1]
    ELSE pieces[1] \o <<separator>> \o join(Tail(pieces), separator)

\* number of occurrences of character c in str
Count(str, c) == Cardinality({i \in 1..Len(str) : str[i] = c})

\* C1: every call uses the entry point named like the invoked operation
\* and carries the operation's arguments as payload fields in the order of
\* the operations table, nothing dropped, duplicated or reordered
C1_EntryAndFields ==
    /\ Len(calls) = Len(invoked)
    /\ \A i \in 1..Len(calls) :
        /\ calls[i].entry = invoked[i].op
        /\ calls[i].args = TableFields(invoked[i])
        /\ calls[i].payload = serialize(TableFields(invoked[i]))

C1_Witness ==
    \E i \in 1..Len(calls) :
        /\ invoked[i].op = "transfer"
        /\ invoked[i].in.tokenId = 300
        /\ invoked[i].in.amount = 5
        /\ calls[i].args = <<Str(<<"b">>), U64(300), U64(5)>>

\* C2: every call any operation makes carries a transfer amount of zero
C2_ZeroCoins == \A i \in 1..Len(calls) : calls[i].coins = 0

C2_Witness ==
    /\ Len(calls) = 2
    /\ invoked[1].op = "transfer"
    /\ invoked[1].in.amount = 5
    /\ invoked[2].op = "mint"

\* C3: every call targets the Identity the proxy was constructed with, and
\* the proxy still holds that Identity after any operations, failed or not
C3_TargetIsConstructorArgument ==
    /\ _origin = at
    /\ \A i \in 1..Len(calls) : calls[i].target = at

C3_Witness ==
    /\ at = "AS2"
    /\ Len(calls) = 2
    /\ ~last.out.ok
    /\ calls[2].target = "AS2"

\* C4: the operations without arguments send the empty buffer, which is the
\* encoding of zero arguments; the operations with arguments never send it
C4_EmptyPayload ==
    /\ serialize(NewArgs) = <<>>
    /\ \A i \in 1..Len(calls) :
        IF invoked[i].op \in NoArgOps
        THEN calls[i].args = NoArg /\ calls[i].payload = <<>>
        ELSE calls[i].payload # <<>>

C4_Witness ==
    /\ Len(calls) = 2
    /\ invoked[1].op = "baseURI"
    /\ calls[1].payload = <<>>
    /\ invoked[2].op = "getApproved"
    /\ Len(calls[2].payload) = 8

\* C5: getApproved returns a sequence of length 0 whenever the response
\* decodes to the empty string, an empty response buffer included; never a
\* sequence holding the empty string
C5_EmptyList ==
    (last.op = "getApproved" /\ last.out.ok
        /\ (last.out.bytes = <<>> \/ bytesToString(last.out.bytes) = <<>>))
    => (last.result.kind = "list" /\ Len(last.result.list) = 0)

C5_Witness ==
    /\ last.op = "getApproved"
    /\ last.out.ok
    /\ last.out.bytes = <<>>
    /\ last.result.list = <<>>

\* C6: for a non-empty decoded response, getApproved returns the substrings
\* between the commas in their order: no piece holds a comma, there is one
\* piece more than commas, and the pieces joined with ',' give the string
C6_SplitOnComma ==
    (last.op = "getApproved" /\ last.out.ok
        /\ bytesToString(last.out.bytes) # <<>>)
    => /\ last.result.kind = "list"
       /\ join(last.result.list, ",") = bytesToString(last.out.bytes)
       /\ Len(last.result.list)
            = Count(bytesToString(last.out.bytes), ",") + 1
       /\ \A i \in 1..Len(last.result.list) :
            Count(last.result.list[i], ",") = 0

C6_Witness ==
    /\ last.op = "getApproved"
    /\ last.out.ok
    /\ bytesToString(last.out.bytes) = <<",", "a", ",">>
    /\ last.result.list = << <<>>, <<"a">>, <<>> >>

\* C7: when the Call Primitive fails, the operation fails with that same
\* error: no second call is made, no response is decoded, no value returned
C7_FailurePropagates ==
    (last.op # "none" /\ ~last.out.ok)
    => /\ last.result.kind = "error"
       /\ last.result.err = last.out.err
       /\ ~last.result.decoded
       /\ Len(calls) = Len(invoked)

C7_Witness ==
    /\ last.op = "getApproved"
    /\ last.out = Failed("remoteFailed")
    /\ last.result = Abort("remoteFailed")
    /\ Len(calls) = 2

\* C8: each operation issues exactly one call, so the calls the remote side
\* observes are as many as the operations invoked and in the same order
C8_OneCallEachInOrder ==
    /\ Len(calls) = Len(invoked)
    /\ \A i \in 1..Len(invoked) : calls[i].entry = invoked[i].op
    /\ (invoked # <<>> => last.op = invoked[Len(invoked)].op)

C8_Witness ==
    /\ Len(invoked) = 2
    /\ invoked[1].op = "mint"
    /\ invoked[2].op = "totalSupply"
    /\ calls[1].entry = "mint"
    /\ calls[2].entry = "totalSupply"
    /\ ~last.out.ok

C10_ShortResponseFails ==
    (last.op \in {"totalSupply", "currentSupply"} /\ last.out.ok
        /\ Len(last.out.bytes) < 8)
    => (last.result.kind = "error" /\ last.result.err \notin CallErrors)

====
